---- MODULE Spec2Model ----
(***************************************************************************)
(* py_m3u: the M3U parser/serializer of src/src/py_m3u/_m3u.py.            *)
(*                                                                         *)
(* A Python str is a sequence of one-character strings.  Python objects    *)
(* are records with a "kind" field and an "id" field (object identity);    *)
(* None is the record NoneObj.                                             *)
(***************************************************************************)
EXTENDS Integers, Sequences, FiniteSets, TLC

\* ------------------------------------------------------------------ bounds

\* most lines in a text handed to loads
MaxLines == 3
\* most items handed to dumps
MaxItems == 2
\* most entries of a prefix dictionary handed to matched_prefix_dict
MaxPrefixes == 2

\* ------------------------------------------------------------- str helpers

NoneObj == [kind |-> "None"]

\* str.startswith(prefix)
startswith(string, prefix) ==
    /\ Len(prefix) <= Len(string)
    /\ SubSeq(string, 1, Len(prefix)) = prefix

\* str.endswith(suffix)
endswith(string, suffix) ==
    /\ Len(suffix) <= Len(string)
    /\ SubSeq(string, Len(string) - Len(suffix) + 1, Len(string)) = suffix

\* the characters str.isspace() counts as whitespace (those the model uses)
Whitespace == {" ", "\t", "\n", "\r", "\f"}

\* str.isspace(): every character is whitespace and there is at least one
isspace(string) ==
    /\ Len(string) > 0
    /\ \A i \in 1..Len(string) : string[i] \in Whitespace

\* the line boundaries str.splitlines() splits on (those the model uses)
LineBreaks == {"\n", "\r", "\f"}

RECURSIVE SplitFrom(_, _, _)
SplitFrom(string, i, cur) ==
    IF i > Len(string)
    THEN IF cur = <<>> THEN <<>> ELSE <<cur>>
    ELSE IF string[i] = "\r" /\ i < Len(string) /\ string[i + 1] = "\n"
         THEN <<cur>> \o SplitFrom(string, i + 2, <<>>)
         ELSE IF string[i] \in LineBreaks
              THEN <<cur>> \o SplitFrom(string, i + 1, <<>>)
              ELSE SplitFrom(string, i + 1, Append(cur, string[i]))

\* str.splitlines(): the lines without their line boundaries; a trailing
\* boundary opens no further (empty) line
splitlines(string) == SplitFrom(string, 1, <<>>)

\* ------------------------------------------------------ matched_prefix_dict

\* A dict is the sequence of its (key, value) entries in insertion order.
RECURSIVE MatchFrom(_, _, _, _)
MatchFrom(string, prefix_dicts, default_value, i) ==
    IF i > Len(prefix_dicts)
    THEN default_value
    ELSE IF startswith(string, prefix_dicts[i].prefix)
         THEN prefix_dicts[i].value
         ELSE MatchFrom(string, prefix_dicts, default_value, i + 1)

RECURSIVE MatchLastFrom(_, _, _, _)
MatchLastFrom(string, prefix_dicts, found, i) ==
    IF i > Len(prefix_dicts)
    THEN found
    ELSE MatchLastFrom(string, prefix_dicts,
                       IF startswith(string, prefix_dicts[i].prefix)
                       THEN prefix_dicts[i].value ELSE found,
                       i + 1)

\* matched_prefix_dict without the break: the last matching entry wins
matched_prefix_dict_nobreak(string, prefix_dicts, default_value) ==
    MatchLastFrom(string, prefix_dicts, default_value, 1)

matched_prefix_dict(string, prefix_dicts, default_value) ==
    MatchFrom(string, prefix_dicts, default_value, 1)

\* ----------------------------------------------- py_m3u.directives (registry)

Digits == <<"0", "1", "2", "3", "4", "5", "6", "7", "8", "9">>

IsDigits(string) ==
    /\ Len(string) > 0
    /\ \A i \in 1..Len(string) : \E d \in 1..10 : Digits[d] = string[i]

DigitVal(c) == (CHOOSE d \in 1..10 : Digits[d] = c) - 1

\* the number a decimal numeral denotes
RECURSIVE ParseNat(_)
ParseNat(string) ==
    IF string = <<>> THEN 0
    ELSE 10 * ParseNat(SubSeq(string, 1, Len(string) - 1))
         + DigitVal(string[Len(string)])

\* the decimal numeral of a number
RECURSIVE RenderNat(_)
RenderNat(n) ==
    IF n < 10 THEN <<Digits[n + 1]>>
    ELSE RenderNat(n \div 10) \o <<Digits[(n % 10) + 1]>>

EXTINF_prefix == <<"#", "E", "X", "T", "I", "N", "F", ":">>
EXTM3U_prefix == <<"#", "E", "X", "T", "M", "3", "U">>

\* the ordered registry: prefix -> directive class
ALL_DIRECTIVE_PREFIXES ==
    << [prefix |-> EXTINF_prefix, value |-> "EXTINF"],
       [prefix |-> EXTM3U_prefix, value |-> "EXTM3U"] >>

\* the Metadata directive object (duration and title)
EXTINF(id, runtime, title) ==
    [kind |-> "EXTINF", id |-> id, runtime |-> runtime, title |-> title]

\* a directive object without fields (the playlist header)
EXTM3U(id) == [kind |-> "EXTM3U", id |-> id]

\* index of the first "," of string, 0 if there is none
FirstComma(string) ==
    IF \E i \in 1..Len(string) : string[i] = ","
    THEN CHOOSE i \in 1..Len(string) :
             /\ string[i] = ","
             /\ \A j \in 1..(i - 1) : string[j] # ","
    ELSE 0

\* cls.from_m3u_string(line) for a line that starts with the class's prefix:
\* [ok |-> TRUE, obj |-> the directive] or [ok |-> FALSE] when the line fails
\* the grammar (Metadata: <prefix><duration>,<title>) and the call raises
from_m3u_string(cls, line, id) ==
    IF cls = "EXTINF"
    THEN LET rest == SubSeq(line, Len(EXTINF_prefix) + 1, Len(line))
             c == FirstComma(rest)
         IN IF c = 0 \/ ~IsDigits(SubSeq(rest, 1, c - 1))
            THEN [ok |-> FALSE]
            ELSE [ok |-> TRUE,
                  obj |-> EXTINF(id, ParseNat(SubSeq(rest, 1, c - 1)),
                                 SubSeq(rest, c + 1, Len(rest)))]
    ELSE [ok |-> TRUE, obj |-> EXTM3U(id)]

\* directive.as_m3u: the rendered line
as_m3u(directive) ==
    IF directive.kind = "EXTINF"
    THEN EXTINF_prefix \o RenderNat(directive.runtime) \o <<",">>
         \o directive.title
    ELSE EXTM3U_prefix

\* isinstance(obj, EXTINF)
IsEXTINF(obj) == obj.kind = "EXTINF"

\* --------------------------------------------------------------- AudioFileRef

supported_audio_file_extensions == << <<".", "m", "p", "3">> >>

\* a Python bool or None as stored in a check field
PyBool(b) == IF b THEN "True" ELSE "False"

\* os.path.exists(path) on the filesystem fs (the set of existing paths)
os_path_exists(path, fs) == path \in fs

\* AudioFileRef.__init__ that stores False for a check it skipped
AudioFileRef_skipped_false(id, source, external_info, validate_existence, check_extension, fs) ==
    [kind |-> "AudioFileRef", id |-> id, source |-> source,
     external_info |-> external_info,
     exists |-> PyBool(validate_existence /\ os_path_exists(source, fs)),
     is_supported |->
         PyBool(check_extension
                /\ \E k \in 1..Len(supported_audio_file_extensions) :
                       endswith(source, supported_audio_file_extensions[k]))]

\* AudioFileRef.__init__
AudioFileRef(id, source, external_info, validate_existence, check_extension, fs) ==
    [kind |-> "AudioFileRef", id |-> id, source |-> source,
     external_info |-> external_info,
     exists |-> IF validate_existence
                THEN PyBool(os_path_exists(source, fs)) ELSE "None",
     is_supported |->
         IF check_extension
         THEN PyBool(\E k \in 1..Len(supported_audio_file_extensions) :
                        endswith(source, supported_audio_file_extensions[k]))
         ELSE "None"]

\* ------------------------------------------------------------ M3UParser.dumps

\* one iteration of the loop of dumps: m3u_string after m3u_obj is appended
dumps_body_source_only(m3u_string, m3u_obj) ==
    IF m3u_obj.kind = "AudioFileRef"
    THEN m3u_string \o m3u_obj.source \o <<"\n">>
    ELSE IF m3u_obj.kind = "AudioDirRef"
         THEN m3u_string \o m3u_obj.directory \o <<"\n">>
         ELSE m3u_string \o as_m3u(m3u_obj) \o <<"\n">>

RECURSIVE SourcesFrom(_, _)
SourcesFrom(files, i) ==
    IF i > Len(files) THEN <<>>
    ELSE files[i].source \o <<"\n">> \o SourcesFrom(files, i + 1)

\* the loop body that writes an AudioDirRef as the lines of its files
dumps_body_children(m3u_string, m3u_obj) ==
    IF m3u_obj.kind = "AudioFileRef"
    THEN LET external_info_string ==
                 IF m3u_obj.external_info # NoneObj
                 THEN as_m3u(m3u_obj.external_info) ELSE <<>>
         IN m3u_string \o external_info_string \o <<"\n">> \o m3u_obj.source
            \o <<"\n">>
    ELSE IF m3u_obj.kind = "AudioDirRef"
         THEN m3u_string \o SourcesFrom(m3u_obj.audio_files, 1)
         ELSE m3u_string \o as_m3u(m3u_obj) \o <<"\n">>

dumps_body(m3u_string, m3u_obj) ==
    IF m3u_obj.kind = "AudioFileRef"
    THEN LET external_info_string ==
                 IF m3u_obj.external_info # NoneObj
                 THEN as_m3u(m3u_obj.external_info) ELSE <<>>
         IN m3u_string \o external_info_string \o <<"\n">> \o m3u_obj.source
            \o <<"\n">>
    ELSE IF m3u_obj.kind = "AudioDirRef"
         THEN m3u_string \o m3u_obj.directory \o <<"\n">>
         ELSE m3u_string \o as_m3u(m3u_obj) \o <<"\n">>

RECURSIVE DumpsFrom(_, _, _)
DumpsFrom(args, i, m3u_string) ==
    IF i > Len(args) THEN m3u_string
    ELSE DumpsFrom(args, i + 1, dumps_body(m3u_string, args[i]))

\* M3UParser.dumps(*args)
M3UParser_dumps(args) == DumpsFrom(args, 1, <<>>)

\* ------------------------------------------------------------ M3UParser.loads

\* one iteration of the loop of loads on a line, up to the yield: the new
\* locals, or raised when from_m3u_string fails.  id is the identity of the
\* object the iteration constructs.
loads_body_swallow(line, parsed_line, last_external_info, id, fs) ==
    LET found_matched_prefix ==
            matched_prefix_dict(line, ALL_DIRECTIVE_PREFIXES, "None")
    IN IF found_matched_prefix # "None"
       THEN LET r == from_m3u_string(found_matched_prefix, line, id)
            IN IF ~r.ok
               THEN [raised |-> FALSE, parsed_line |-> parsed_line,
                     last_external_info |-> last_external_info]
               ELSE [raised |-> FALSE, parsed_line |-> r.obj,
                     last_external_info |->
                         IF IsEXTINF(r.obj) THEN r.obj
                         ELSE last_external_info]
       ELSE IF ~isspace(line)
            THEN [raised |-> FALSE,
                  parsed_line |->
                      AudioFileRef(id, line, last_external_info, TRUE, TRUE,
                                   fs),
                  last_external_info |-> NoneObj]
            ELSE [raised |-> FALSE, parsed_line |-> parsed_line,
                  last_external_info |-> last_external_info]

loads_body_keep_info(line, parsed_line, last_external_info, id, fs) ==
    LET found_matched_prefix ==
            matched_prefix_dict(line, ALL_DIRECTIVE_PREFIXES, "None")
    IN IF found_matched_prefix # "None"
       THEN LET r == from_m3u_string(found_matched_prefix, line, id)
            IN IF ~r.ok
               THEN [raised |-> TRUE, parsed_line |-> parsed_line,
                     last_external_info |-> last_external_info]
               ELSE [raised |-> FALSE, parsed_line |-> r.obj,
                     last_external_info |-> last_external_info]
       ELSE IF ~isspace(line)
            THEN [raised |-> FALSE,
                  parsed_line |->
                      AudioFileRef(id, line, last_external_info, TRUE, TRUE,
                                   fs),
                  last_external_info |-> NoneObj]
            ELSE [raised |-> FALSE, parsed_line |-> parsed_line,
                  last_external_info |-> last_external_info]

\* the loop body without the reset of last_external_info at line 250
loads_body_no_reset(line, parsed_line, last_external_info, id, fs) ==
    LET found_matched_prefix ==
            matched_prefix_dict(line, ALL_DIRECTIVE_PREFIXES, "None")
    IN IF found_matched_prefix # "None"
       THEN LET r == from_m3u_string(found_matched_prefix, line, id)
            IN IF ~r.ok
               THEN [raised |-> TRUE, parsed_line |-> parsed_line,
                     last_external_info |-> last_external_info]
               ELSE [raised |-> FALSE, parsed_line |-> r.obj,
                     last_external_info |->
                         IF IsEXTINF(r.obj) THEN r.obj
                         ELSE last_external_info]
       ELSE IF ~isspace(line)
            THEN [raised |-> FALSE,
                  parsed_line |->
                      AudioFileRef(id, line, last_external_info, TRUE, TRUE,
                                   fs),
                  last_external_info |-> last_external_info]
            ELSE [raised |-> FALSE, parsed_line |-> parsed_line,
                  last_external_info |-> last_external_info]

loads_body(line, parsed_line, last_external_info, id, fs) ==
    LET found_matched_prefix ==
            matched_prefix_dict(line, ALL_DIRECTIVE_PREFIXES, "None")
    IN IF found_matched_prefix # "None"
       THEN LET r == from_m3u_string(found_matched_prefix, line, id)
            IN IF ~r.ok
               THEN [raised |-> TRUE, parsed_line |-> parsed_line,
                     last_external_info |-> last_external_info]
               ELSE [raised |-> FALSE, parsed_line |-> r.obj,
                     last_external_info |->
                         IF IsEXTINF(r.obj) THEN r.obj
                         ELSE last_external_info]
       ELSE IF ~isspace(line)
            THEN [raised |-> FALSE,
                  parsed_line |->
                      AudioFileRef(id, line, last_external_info, TRUE, TRUE,
                                   fs),
                  last_external_info |-> NoneObj]
            ELSE [raised |-> FALSE, parsed_line |-> parsed_line,
                  last_external_info |-> last_external_info]

\* ---------------------------------------------------------------- AudioDirRef

\* most names a directory lists
MaxChildren == 3
\* most iterations over one AudioDirRef
MaxIterations == 2

\* os.listdir(path): the names of the directory, or the call raises when the
\* path is missing or not a directory
os_listdir(path, dirs) ==
    IF path \in DOMAIN dirs
    THEN [ok |-> TRUE, names |-> dirs[path]]
    ELSE [ok |-> FALSE]

\* os.path.isdir(path)
os_path_isdir(path, dirs) == path \in DOMAIN dirs

\* AudioDirRef.__init__ where a failed listing is taken for an empty one
AudioDirRef_lenient(id, directory, validate_existence, validate_directory, check_extension, fs, dirs) ==
    LET listed == os_listdir(directory, dirs)
        names == IF listed.ok THEN listed.names ELSE <<>>
    IN [ok |-> TRUE,
        obj |-> [kind |-> "AudioDirRef", id |-> id, directory |-> directory,
                 audio_files |->
                     [i \in 1..Len(names) |->
                         AudioFileRef(id + i, names[i], NoneObj, TRUE,
                                      check_extension, fs)],
                 exists |-> IF validate_existence
                            THEN PyBool(os_path_exists(directory, fs))
                            ELSE "None",
                 is_dir |-> IF validate_directory
                            THEN PyBool(os_path_isdir(directory, dirs))
                            ELSE "None"]]

\* AudioDirRef.__init__: [ok |-> TRUE, obj |-> the object], or [ok |-> FALSE]
\* when os.listdir raises.  Every listed name becomes an AudioFileRef built
\* with validate_existence left at its default.
AudioDirRef(id, directory, validate_existence, validate_directory, check_extension, fs, dirs) ==
    LET listed == os_listdir(directory, dirs)
    IN IF ~listed.ok
       THEN [ok |-> FALSE]
       ELSE [ok |-> TRUE,
             obj |-> [kind |-> "AudioDirRef", id |-> id,
                      directory |-> directory,
                      audio_files |->
                          [i \in 1..Len(listed.names) |->
                              AudioFileRef(id + i, listed.names[i], NoneObj,
                                           TRUE, check_extension, fs)],
                      exists |-> IF validate_existence
                                 THEN PyBool(os_path_exists(directory, fs))
                                 ELSE "None",
                      is_dir |-> IF validate_directory
                                 THEN PyBool(os_path_isdir(directory, dirs))
                                 ELSE "None"]]

\* AudioDirRef.__iter__, drained: the items one iteration yields
AudioDirRef_iter(self) == self.audio_files

\* M3UParser.dump(file_type) with the text of the held playlist
M3UParser_dump_held(held_items) == M3UParser_dumps(held_items)

\* M3UParser.dump(file_type): the text it writes to file_type, whatever
\* playlist the caller holds; dumps is called without arguments
M3UParser_dump(held_items) == M3UParser_dumps(<<>>)

\* ------------------------------------------------------------------ inputs

Path_a == <<"a", ".", "m", "p", "3">>
Path_b == <<"b">>

\* the lines a text handed to loads is made of: paths, an empty line, a
\* whitespace-only line, Metadata lines, a header line, a Metadata line that
\* fails the grammar
Lines ==
    { Path_a, Path_b, <<>>, <<" ">>,
      EXTINF_prefix \o <<"1", ",", "t">>,
      EXTINF_prefix \o <<"2", "0", ",", "u">>,
      EXTINF_prefix \o <<"x">>,
      EXTM3U_prefix }

RECURSIVE JoinLines(_)
JoinLines(ls) ==
    IF ls = <<>> THEN <<>> ELSE Head(ls) \o <<"\n">> \o JoinLines(Tail(ls))

\* the texts of at most MaxLines lines, each line ended by a newline
Texts ==
    { JoinLines(ls) : ls \in UNION { [1..n -> Lines] : n \in 0..MaxLines } }

\* the paths that may exist on the filesystem
FsPaths == {Path_a}

\* the objects a caller may hand to dumps as item j: file references with
\* and without Metadata, a bare Metadata directive, a bare header directive
CallerItems(j, fs) ==
    { AudioFileRef(100 + 2 * j, Path_a, NoneObj, TRUE, TRUE, fs),
      AudioFileRef(100 + 2 * j, Path_b,
                   EXTINF(101 + 2 * j, 1, <<"t">>), TRUE, TRUE, fs),
      EXTINF(100 + 2 * j, 20, <<"u">>),
      EXTM3U(100 + 2 * j) }

Playlists(fs) ==
    { p \in UNION { [1..n -> UNION { CallerItems(j, fs) : j \in 1..n }]
                    : n \in 0..MaxItems } :
        \A j \in 1..Len(p) : p[j] \in CallerItems(j, fs) }

\* the prefixes and strings matched_prefix_dict is exercised on
MatchPrefixes == { <<"A">>, <<"A", "B">>, <<"B">> }
MatchStrings == { <<"A", "B", "C">>, <<"A">>, <<"B", "A">>, <<"C">>, <<>> }

\* the dictionaries of at most MaxPrefixes distinct prefixes, in every
\* insertion order; the value of a prefix is the prefix itself, tagged
PrefixDicts ==
    { [i \in 1..Len(ks) |-> [prefix |-> ks[i], value |-> <<"v", ks[i]>>]] :
        ks \in { q \in UNION { [1..n -> MatchPrefixes] : n \in 0..MaxPrefixes } :
                   \A i, j \in 1..Len(q) : i # j => q[i] # q[j] } }

\* ------------------------------------------------------------------- state

VARIABLES
    fs,                  \* the filesystem: the set of existing paths
    pc,                  \* "idle", "dumped", "redumped", "matched", or the state of the
                         \* loads generator: "created", "suspended",
                         \* "raised", "exhausted"
    args,                \* the arguments of the dumps call
    dumps_result,        \* the string dumps returned
    from_dumps,          \* TRUE when loads was given the result of dumps
    m3u_string,          \* the argument of the loads call
    idx,                 \* the number of lines the generator has taken
    parsed_line,         \* local of loads
    last_external_info,  \* local of loads
    yielded,             \* the items the generator has yielded, in order
    match_call,          \* the arguments of the matched_prefix_dict call
    match_result,        \* what matched_prefix_dict returned
    dirs,                \* the filesystem's directories: path -> the names
                         \* os.listdir returns, in its order
    call,                \* the arguments of the last constructor call
    built,               \* the object the last constructor call returned
    iterations,          \* what each iteration of the AudioDirRef yielded
    held,                \* the playlist the caller of dump holds
    writes,              \* the texts written to the handle given to dump
    gens                 \* the locals of two loads generators side by side

vars == <<fs, pc, args, dumps_result, from_dumps, m3u_string, idx, parsed_line, last_external_info, yielded, match_call, match_result, dirs, call, built, iterations, held, writes, gens>>

\* the state of the write side and of the second specification of loads
auxVars == <<dirs, call, built, iterations, held, writes, gens>>

\* no constructor was called, nothing was written, no generator pair exists
AuxInit ==
    /\ dirs = <<>>
    /\ call = NoneObj
    /\ built = NoneObj
    /\ iterations = <<>>
    /\ held = <<>>
    /\ writes = <<>>
    /\ gens = <<>>

genVars == <<m3u_string, idx, parsed_line, last_external_info, yielded>>

Init ==
    /\ fs \in SUBSET FsPaths
    /\ pc = "idle"
    /\ args = <<>>
    /\ dumps_result = <<>>
    /\ from_dumps = FALSE
    /\ m3u_string = <<>>
    /\ idx = 0
    /\ parsed_line = NoneObj
    /\ last_external_info = NoneObj
    /\ yielded = <<>>
    /\ match_call = NoneObj
    /\ match_result = <<>>
    /\ AuxInit

\* a call of matched_prefix_dict(string, prefix_dicts, default_value)
MatchPrefix ==
    /\ pc = "idle"
    /\ \E string \in MatchStrings, prefix_dicts \in PrefixDicts,
          default_value \in { <<"N">>, <<"d">> } :
         /\ match_call' = [string |-> string, prefix_dicts |-> prefix_dicts,
                           default_value |-> default_value]
         /\ match_result' =
                matched_prefix_dict(string, prefix_dicts, default_value)
    /\ pc' = "matched"
    /\ UNCHANGED <<fs, args, dumps_result, from_dumps, genVars>>
    /\ UNCHANGED auxVars

\* a call of M3UParser.dumps(*args)
Dumps ==
    /\ pc = "idle"
    /\ \E p \in Playlists(fs) :
         /\ args' = p
         /\ dumps_result' = M3UParser_dumps(p)
    /\ pc' = "dumped"
    /\ UNCHANGED <<fs, from_dumps, genVars, match_call, match_result>>
    /\ UNCHANGED auxVars

\* a call of M3UParser.loads on the string dumps returned: the generator is
\* created, no line is read yet
LoadsDumped ==
    /\ pc = "dumped"
    /\ m3u_string' = dumps_result
    /\ from_dumps' = TRUE
    /\ pc' = "created"
    /\ UNCHANGED <<fs, args, dumps_result, idx, parsed_line,
                   last_external_info, yielded, match_call, match_result>>
    /\ UNCHANGED auxVars

\* a call of M3UParser.loads on a text
LoadsText ==
    /\ pc = "idle"
    /\ \E text \in Texts : m3u_string' = text
    /\ pc' = "created"
    /\ UNCHANGED <<fs, args, dumps_result, from_dumps, idx, parsed_line,
                   last_external_info, yielded, match_call, match_result>>
    /\ UNCHANGED auxVars

\* next() without the yield for a line that constructs nothing
GenNext_skip_blank ==
    /\ pc \in {"created", "suspended"}
    /\ LET lines == splitlines(m3u_string)
       IN IF idx = Len(lines)
          THEN /\ pc' = "exhausted"
               /\ UNCHANGED genVars
          ELSE LET r == loads_body(lines[idx + 1], parsed_line,
                                   last_external_info, idx + 1, fs)
               IN /\ pc' = IF r.raised THEN "raised" ELSE "suspended"
                  /\ idx' = idx + 1
                  /\ parsed_line' = r.parsed_line
                  /\ last_external_info' = r.last_external_info
                  /\ yielded' = IF r.raised \/ r.parsed_line = parsed_line
                                THEN yielded
                                ELSE Append(yielded, r.parsed_line)
                  /\ UNCHANGED m3u_string
    /\ UNCHANGED <<fs, args, dumps_result, from_dumps, match_call,
                   match_result>>
    /\ UNCHANGED auxVars

\* next() on the generator of loads: the loop takes the next line and yields
\* parsed_line, or from_m3u_string raises and the generator is finished, or
\* the lines are used up (StopIteration)
GenNext ==
    /\ pc \in {"created", "suspended"}
    /\ LET lines == splitlines(m3u_string)
       IN IF idx = Len(lines)
          THEN /\ pc' = "exhausted"
               /\ UNCHANGED genVars
          ELSE LET r == loads_body(lines[idx + 1], parsed_line,
                                   last_external_info, idx + 1, fs)
               IN /\ pc' = IF r.raised THEN "raised" ELSE "suspended"
                  /\ idx' = idx + 1
                  /\ parsed_line' = r.parsed_line
                  /\ last_external_info' = r.last_external_info
                  /\ yielded' = IF r.raised THEN yielded
                                ELSE Append(yielded, r.parsed_line)
                  /\ UNCHANGED m3u_string
    /\ UNCHANGED <<fs, args, dumps_result, from_dumps, match_call,
                   match_result>>
    /\ UNCHANGED auxVars

\* a call of M3UParser.dumps on one item a finished loads run over a text
\* yielded
DumpsYielded ==
    /\ pc = "exhausted"
    /\ ~from_dumps
    /\ \E k \in 1..Len(yielded) :
         /\ yielded[k] # NoneObj
         /\ args' = <<yielded[k]>>
         /\ dumps_result' = M3UParser_dumps(<<yielded[k]>>)
    /\ pc' = "redumped"
    /\ UNCHANGED <<fs, from_dumps, genVars, match_call, match_result>>
    /\ UNCHANGED auxVars

Next ==
    \/ MatchPrefix
    \/ Dumps
    \/ LoadsDumped
    \/ LoadsText
    \/ GenNext
    \/ DumpsYielded

Spec == Init /\ [][Next]_vars

TypeOK ==
    /\ pc \in {"idle", "dumped", "redumped", "matched", "created", "suspended", "raised",
               "exhausted"}
    /\ idx \in 0..(2 * MaxItems + MaxLines + 2)
    /\ Len(yielded) <= idx

\* ------------------------------------------------------- reading the state

\* the lines of the text the generator runs over
gen_lines == splitlines(m3u_string)

\* a line that is empty or consists only of whitespace
IsBlankLine(line) == \A i \in 1..Len(line) : line[i] \in Whitespace

\* a line that starts with a registered directive prefix
IsDirectiveLine(line) ==
    \E i \in 1..Len(ALL_DIRECTIVE_PREFIXES) :
        startswith(line, ALL_DIRECTIVE_PREFIXES[i].prefix)

IsMetadataLine(line) == startswith(line, EXTINF_prefix)

\* a path line: not blank and not a directive
IsPathLine(line) == ~IsBlankLine(line) /\ ~IsDirectiveLine(line)

IsFileRef(obj) == obj.kind = "AudioFileRef"

\* an object up to structural equality: the source string, the directive
\* fields and the attached externalInfo, without identity and check fields
Struct(obj) ==
    IF obj.kind = "AudioFileRef"
    THEN [kind |-> "AudioFileRef", source |-> obj.source,
          external_info |->
              IF obj.external_info.kind = "EXTINF"
              THEN [kind |-> "EXTINF",
                    runtime |-> obj.external_info.runtime,
                    title |-> obj.external_info.title]
              ELSE [kind |-> obj.external_info.kind]]
    ELSE IF obj.kind = "EXTINF"
         THEN [kind |-> "EXTINF", runtime |-> obj.runtime,
               title |-> obj.title]
         ELSE [kind |-> obj.kind]

StructSeq(objs) == [i \in 1..Len(objs) |-> Struct(objs[i])]

\* ------------------------------------------------------------------ claims

\* C1: round trip: when loads has run to its end over the string dumps
\* returned for a playlist, the items it yielded are the playlist's items:
\* as many, in the same order, structurally equal.
RoundTrip ==
    (pc = "exhausted" /\ from_dumps) => StructSeq(yielded) = StructSeq(args)

\* C2: for every file reference without externalInfo among the arguments of
\* dumps, what dumps emits for it is its source string and one newline and
\* nothing else: the result is the output for the items before it, then the
\* source, then a newline, then the output for the items after it.
BareFileRefContribution ==
    pc \in {"dumped", "redumped"} =>
        \A j \in 1..Len(args) :
            (IsFileRef(args[j]) /\ args[j].external_info = NoneObj) =>
                dumps_result =
                    M3UParser_dumps(SubSeq(args, 1, j - 1))
                    \o args[j].source \o <<"\n">>
                    \o M3UParser_dumps(SubSeq(args, j + 1, Len(args)))

NoOpLineRule ==
    \A k \in 2..Len(yielded) :
        (IsBlankLine(gen_lines[k]) /\ ~IsDirectiveLine(gen_lines[k])) =>
            yielded[k] = yielded[k - 1]

\* C5: when a Metadata line is directly followed by a path line, the item
\* for the first line is the parsed Metadata directive and the item for the
\* second is a file reference whose source is the raw second line and whose
\* externalInfo is that same directive object.
MetadataAttachment ==
    \A k \in 1..(Len(yielded) - 1) :
        (IsMetadataLine(gen_lines[k]) /\ IsPathLine(gen_lines[k + 1])) =>
            /\ yielded[k] = from_m3u_string("EXTINF", gen_lines[k], k).obj
            /\ IsEXTINF(yielded[k])
            /\ IsFileRef(yielded[k + 1])
            /\ yielded[k + 1].source = gen_lines[k + 1]
            /\ yielded[k + 1].external_info = yielded[k]

\* the text "#EXTINF:1,t\nb\n" has been read: a directive with duration 1
\* and title "t", then a file reference "b" carrying it
MetadataAttachmentWitness ==
    /\ pc = "exhausted"
    /\ m3u_string = EXTINF_prefix \o <<"1", ",", "t", "\n">> \o Path_b
                    \o <<"\n">>
    /\ Len(yielded) = 2
    /\ yielded[1].runtime = 1
    /\ yielded[1].title = <<"t">>
    /\ yielded[2].source = Path_b
    /\ yielded[2].external_info = yielded[1]

\* no path line among lines i..j of the text
NoPathLine(i, j) == \A n \in i..j : ~IsPathLine(gen_lines[n])

\* the items yielded so far that are file references carrying directive d
Carriers(d) ==
    { j \in 1..Len(yielded) :
        IsFileRef(yielded[j]) /\ yielded[j].external_info = d }

\* C6: no dangling metadata: a Metadata directive whose line is followed by
\* another Metadata line, or by the end of the text, before any path line is
\* carried by no yielded file reference; and no file reference yielded
\* before a Metadata directive's line carries that directive.
NoDanglingMetadata ==
    \A k \in 1..Len(yielded) :
        IsMetadataLine(gen_lines[k]) =>
            /\ ( \/ NoPathLine(k + 1, Len(gen_lines))
                 \/ \E m \in (k + 1)..Len(gen_lines) :
                        /\ IsMetadataLine(gen_lines[m])
                        /\ NoPathLine(k + 1, m - 1) )
               => Carriers(yielded[k]) = {}
            /\ \A j \in Carriers(yielded[k]) : j > k

\* C7: a Metadata directive applies to the next path line: when a Metadata
\* line is followed by blank lines and non-Metadata directive lines only and
\* then by a path line, the file reference yielded for the path line carries
\* the directive and no item yielded for a line in between is a file
\* reference carrying it.
MetadataAppliesToNextPath ==
    \A k \in 1..Len(yielded) : \A m \in (k + 1)..Len(yielded) :
        ( /\ IsMetadataLine(gen_lines[k])
          /\ IsPathLine(gen_lines[m])
          /\ \A i \in (k + 1)..(m - 1) :
                 \/ IsBlankLine(gen_lines[i])
                 \/ IsDirectiveLine(gen_lines[i])
                    /\ ~IsMetadataLine(gen_lines[i]) )
        => /\ IsFileRef(yielded[m])
           /\ yielded[m].external_info = yielded[k]
           /\ \A i \in (k + 1)..(m - 1) :
                  ~(IsFileRef(yielded[i])
                    /\ yielded[i].external_info = yielded[k])

\* C8: loads yields one item per line, in line order: while no call has
\* failed the number of items yielded is the number of lines taken, the item
\* of a line that is a directive or a path is the object made from that
\* line, and the generator ends when as many items as lines were yielded.
OneItemPerLine ==
    /\ pc \in {"created", "suspended", "exhausted"} => Len(yielded) = idx
    /\ pc \in {"exhausted", "redumped"} => Len(yielded) = Len(gen_lines)
    /\ Len(yielded) <= Len(gen_lines)
    /\ \A k \in 1..Len(yielded) :
           /\ IsPathLine(gen_lines[k]) =>
                  /\ IsFileRef(yielded[k])
                  /\ yielded[k].source = gen_lines[k]
                  /\ yielded[k].id = k
           /\ IsDirectiveLine(gen_lines[k]) =>
                  /\ ~IsFileRef(yielded[k])
                  /\ yielded[k].id = k

\* a text of three lines with a whitespace-only line in the middle has been
\* read to its end and three items were yielded
OneItemPerLineWitness ==
    /\ pc = "exhausted"
    /\ m3u_string = Path_a \o <<"\n", " ", "\n">> \o Path_b \o <<"\n">>
    /\ Len(yielded) = 3
    /\ yielded[1].source = Path_a
    /\ yielded[2] = yielded[1]
    /\ yielded[3].source = Path_b

\* C9: matched_prefix_dict returns the value of the first entry, in
\* insertion order, whose prefix is a literal prefix of the string, and the
\* default when there is none; with "AB" inserted before "A" the string
\* "ABC" gets the value of "AB".
PrefixMatchPriority ==
    pc = "matched" =>
        LET string == match_call.string
            d == match_call.prefix_dicts
            hits == { i \in 1..Len(d) :
                        /\ Len(d[i].prefix) <= Len(string)
                        /\ \A n \in 1..Len(d[i].prefix) :
                               string[n] = d[i].prefix[n] }
        IN /\ hits = {} => match_result = match_call.default_value
           /\ hits # {} =>
                  \E i \in hits :
                      /\ \A j \in hits : i <= j
                      /\ match_result = d[i].value
           /\ ( /\ string = <<"A", "B", "C">>
                /\ Len(d) = 2
                /\ d[1].prefix = <<"A", "B">>
                /\ d[2].prefix = <<"A">> )
              => match_result = d[1].value

\* "ABC" was looked up in the dictionary {"AB": ..., "A": ...} and the value
\* of "AB" came back
PrefixMatchPriorityWitness ==
    /\ pc = "matched"
    /\ match_call.string = <<"A", "B", "C">>
    /\ Len(match_call.prefix_dicts) = 2
    /\ match_call.prefix_dicts[1].prefix = <<"A", "B">>
    /\ match_call.prefix_dicts[2].prefix = <<"A">>
    /\ match_result = <<"v", <<"A", "B">>>>

\* a line that starts with the Metadata prefix and fails the Metadata grammar
IsMalformedLine(line) ==
    /\ IsMetadataLine(line)
    /\ ~from_m3u_string("EXTINF", line, 0).ok

\* C10: when the parse function fails on line k, the failure surfaces at the
\* request of the k-th item and not before: that call raises, the items of
\* lines 1..k-1 stay as they were yielded, nothing is yielded for line k; a
\* call on a line that parses does not raise.
FailureSurfacing ==
    [][ (pc \in {"created", "suspended"} /\ idx < Len(gen_lines)) =>
            /\ IsMalformedLine(gen_lines[idx + 1]) =>
                   /\ pc' = "raised"
                   /\ yielded' = yielded
                   /\ Len(yielded') = idx
            /\ ~IsMalformedLine(gen_lines[idx + 1]) =>
                   /\ pc' = "suspended"
                   /\ Len(yielded') = Len(yielded) + 1
                   /\ SubSeq(yielded', 1, Len(yielded)) = yielded ]_vars

\* the third line of a text failed to parse: the call raised after two items
FailureSurfacingWitness ==
    /\ pc = "raised"
    /\ idx = 3
    /\ Len(yielded) = 2
    /\ IsMalformedLine(gen_lines[3])
    /\ IsFileRef(yielded[1])

\* C17: within one loads run a Metadata directive is the externalInfo of at
\* most one yielded file reference object, and of two path lines in a row the
\* second one's file reference carries no externalInfo.
AtMostOneCarrier ==
    /\ \A k \in 1..Len(yielded) :
           IsEXTINF(yielded[k]) =>
               Cardinality({ yielded[j].id : j \in Carriers(yielded[k]) }) <= 1
    /\ \A k \in 1..(Len(yielded) - 1) :
           (IsPathLine(gen_lines[k]) /\ IsPathLine(gen_lines[k + 1])) =>
               /\ IsFileRef(yielded[k + 1])
               /\ yielded[k + 1].external_info = NoneObj

\* a Metadata line and two path lines have been read: the first file
\* reference carries the directive, the second carries nothing
AtMostOneCarrierWitness ==
    /\ pc = "exhausted"
    /\ m3u_string = EXTINF_prefix \o <<"1", ",", "t", "\n">> \o Path_b
                    \o <<"\n">> \o Path_a \o <<"\n">>
    /\ Len(yielded) = 3
    /\ yielded[2].external_info = yielded[1]
    /\ yielded[3].source = Path_a
    /\ yielded[3].external_info = NoneObj

\* line k of the text comes before the first directive or path line: it and
\* every line before it is blank and no directive
BeforeFirstContent(k) ==
    \A i \in 1..k : IsBlankLine(gen_lines[i]) /\ ~IsDirectiveLine(gen_lines[i])

\* C18: the item yielded for a line is the absent value exactly when the line
\* is a whitespace-only line before the first directive or path line; every
\* other item is a directive or a file reference, so no item is absent once a
\* directive or path line was taken.
AbsentOnlyBeforeFirstContent ==
    \A k \in 1..Len(yielded) :
        /\ BeforeFirstContent(k) => yielded[k] = NoneObj
        /\ ~BeforeFirstContent(k) =>
               yielded[k].kind \in {"AudioFileRef", "EXTINF", "EXTM3U"}

\* ------------------------------------------------------- write-side inputs

Dir_d == <<"d">>
Song == <<"s", ".", "m", "p", "3">>
Image == <<"i", ".", "j", "p", "g">>
Readme == <<"r", ".", "t", "x", "t">>

ChildNames == {Song, Image, Readme}

\* what os.listdir may return: at most MaxChildren distinct names, any order
Listings ==
    { l \in UNION { [1..n -> ChildNames] : n \in 0..MaxChildren } :
        \A i, j \in 1..Len(l) : i # j => l[i] # l[j] }

\* the filesystems: Dir_d is missing, a plain file or a directory with a
\* listing; the name Song may or may not exist from the working directory
FsStates ==
    { [fs |-> f, dirs |-> <<>>] : f \in SUBSET {Dir_d, Song} }
    \cup { [fs |-> f \cup {Dir_d}, dirs |-> (Dir_d :> l)] :
             f \in SUBSET {Song}, l \in Listings }

\* ----------------------------------------------- write-side specifications

loadsVars == <<pc, args, dumps_result, from_dumps, genVars, match_call, match_result>>

InitWrite ==
    /\ \E st \in FsStates : fs = st.fs /\ dirs = st.dirs
    /\ pc = "idle"
    /\ args = <<>>
    /\ dumps_result = <<>>
    /\ from_dumps = FALSE
    /\ m3u_string = <<>>
    /\ idx = 0
    /\ parsed_line = NoneObj
    /\ last_external_info = NoneObj
    /\ yielded = <<>>
    /\ match_call = NoneObj
    /\ match_result = <<>>
    /\ call = NoneObj
    /\ built = NoneObj
    /\ iterations = <<>>
    /\ held = <<>>
    /\ writes = <<>>
    /\ gens = <<>>

\* a caller constructs an AudioFileRef
NewFileRef ==
    /\ pc = "idle"
    /\ \E source \in {Song, Readme},
          external_info \in {NoneObj, EXTINF(2, 1, <<"t">>)},
          validate_existence \in BOOLEAN, check_extension \in BOOLEAN :
         /\ call' = [op |-> "AudioFileRef", path |-> source,
                     validate_existence |-> validate_existence,
                     validate_directory |-> FALSE,
                     check_extension |-> check_extension,
                     fs |-> fs, dirs |-> dirs]
         /\ built' = AudioFileRef(1, source, external_info,
                                  validate_existence, check_extension, fs)
    /\ pc' = "fileref"
    /\ UNCHANGED <<fs, dirs, args, dumps_result, from_dumps, genVars, match_call, match_result, iterations, held, writes, gens>>

\* a caller constructs an AudioDirRef: the object, or the listing raises and
\* there is no object
NewDirRef ==
    /\ pc = "idle"
    /\ \E validate_existence \in BOOLEAN, validate_directory \in BOOLEAN,
          check_extension \in BOOLEAN :
         LET r == AudioDirRef(10, Dir_d, validate_existence,
                              validate_directory, check_extension, fs, dirs)
         IN /\ call' = [op |-> "AudioDirRef", path |-> Dir_d,
                        validate_existence |-> validate_existence,
                        validate_directory |-> validate_directory,
                        check_extension |-> check_extension,
                        fs |-> fs, dirs |-> dirs]
            /\ built' = IF r.ok THEN r.obj ELSE NoneObj
            /\ pc' = IF r.ok THEN "dirref" ELSE "dirraised"
    /\ UNCHANGED <<fs, dirs, args, dumps_result, from_dumps, genVars, match_call, match_result, iterations, held, writes, gens>>

\* the filesystem changes under the program: anything may appear or vanish
FsChange ==
    /\ pc = "dirref"
    /\ \E st \in FsStates :
         /\ <<st.fs, st.dirs>> # <<fs, dirs>>
         /\ fs' = st.fs
         /\ dirs' = st.dirs
    /\ UNCHANGED <<loadsVars, call, built, iterations, held, writes, gens>>

\* an iteration that lists the directory again
Iterate_relist ==
    /\ pc = "dirref"
    /\ Len(iterations) < MaxIterations
    /\ iterations' =
           Append(iterations,
                  AudioDirRef_lenient(10, built.directory, TRUE, TRUE, TRUE,
                                      fs, dirs).obj.audio_files)
    /\ UNCHANGED <<fs, dirs, loadsVars, call, built, held, writes, gens>>

\* one iteration over the AudioDirRef, from iter() to StopIteration
Iterate ==
    /\ pc = "dirref"
    /\ Len(iterations) < MaxIterations
    /\ iterations' = Append(iterations, AudioDirRef_iter(built))
    /\ UNCHANGED <<fs, dirs, loadsVars, call, built, held, writes, gens>>

NextWrite == NewFileRef \/ NewDirRef \/ FsChange \/ Iterate

\* constructors, iteration and a changing filesystem
SpecWrite == InitWrite /\ [][NextWrite]_vars

\* the objects a caller may hand to dumps as item j next to the AudioDirRef
MixedItems(j) == CallerItems(j, fs) \cup {built}

\* a call of M3UParser.dumps with the AudioDirRef among the items
DumpsMixed ==
    /\ pc = "dirref"
    /\ \E n \in 0..MaxItems :
         \E p \in [1..n -> UNION { MixedItems(j) : j \in 1..n }] :
            /\ \A j \in 1..n : p[j] \in MixedItems(j)
            /\ args' = p
            /\ dumps_result' = M3UParser_dumps(p)
    /\ pc' = "dumped"
    /\ UNCHANGED <<fs, dirs, from_dumps, genVars, match_call, match_result, call, built, iterations, held, writes, gens>>

\* a call of M3UParser.dump(file_type) by a caller that holds a playlist
Dump ==
    /\ pc = "idle"
    /\ \E p \in Playlists(fs) :
         /\ held' = p
         /\ writes' = Append(writes, M3UParser_dump(p))
    /\ pc' = "written"
    /\ UNCHANGED <<fs, dirs, args, dumps_result, from_dumps, genVars, match_call, match_result, call, built, iterations, gens>>

NextDump == NewDirRef \/ DumpsMixed \/ Dump

\* the serializer with directory references and the handle
SpecDump == InitWrite /\ [][NextDump]_vars

\* --------------------------------------------------- claims, write side

\* a name that ends with a whitelisted extension
HasSupportedExtension(name) ==
    \E k \in 1..Len(supported_audio_file_extensions) :
        \A n \in 1..Len(supported_audio_file_extensions[k]) :
            /\ Len(name) >= Len(supported_audio_file_extensions[k])
            /\ name[Len(name) - Len(supported_audio_file_extensions[k]) + n]
                   = supported_audio_file_extensions[k][n]

\* the sources of a sequence of file references, in order
Sources(files) == [i \in 1..Len(files) |-> files[i].source]

\* C11: an iteration over an AudioDirRef yields exactly the listed names that
\* end with a whitelisted extension, in listing order, each marked supported.
ExtensionFiltering ==
    pc = "dirref" =>
        \A n \in 1..Len(iterations) :
            /\ Sources(iterations[n])
                   = SelectSeq(call.dirs[call.path], HasSupportedExtension)
            /\ \A i \in 1..Len(iterations[n]) :
                   iterations[n][i].is_supported = "True"

\* C12: every child file reference of an AudioDirRef has its exists field
\* absent, whatever flags the AudioDirRef was constructed with.
ChildExistenceSuppressed ==
    pc = "dirref" =>
        \A i \in 1..Len(built.audio_files) :
            built.audio_files[i].exists = "None"

\* C13: every iteration over an AudioDirRef yields the children computed at
\* construction: the names listed then, in that order, as the same objects,
\* whatever the filesystem has become since.
FrozenIteration ==
    pc = "dirref" =>
        \A n \in 1..Len(iterations) :
            /\ iterations[n] = built.audio_files
            /\ Sources(iterations[n]) = call.dirs[call.path]
            /\ \A i \in 1..Len(iterations[n]) :
                   iterations[n][i] =
                       AudioFileRef(10 + i, call.dirs[call.path][i], NoneObj,
                                    TRUE, call.check_extension, call.fs)

\* the directory listed three names at construction, is gone now, and two
\* iterations both yielded the three children
FrozenIterationWitness ==
    /\ pc = "dirref"
    /\ Len(call.dirs[Dir_d]) = 3
    /\ Dir_d \notin fs
    /\ Dir_d \notin DOMAIN dirs
    /\ Len(iterations) = 2
    /\ Len(iterations[1]) = 3
    /\ iterations[2] = iterations[1]

\* C14: a check field is absent exactly when its flag was false at
\* construction and holds the result of the check otherwise; a file reference
\* to a path that does not exist is built and stores exists = False.
TriStateFields ==
    /\ pc = "fileref" =>
           /\ built.kind = "AudioFileRef"
           /\ built.exists = "None" <=> ~call.validate_existence
           /\ call.validate_existence =>
                  built.exists = PyBool(call.path \in call.fs)
           /\ built.is_supported = "None" <=> ~call.check_extension
           /\ call.check_extension =>
                  built.is_supported = PyBool(HasSupportedExtension(call.path))
    /\ pc = "dirref" =>
           /\ built.exists = "None" <=> ~call.validate_existence
           /\ call.validate_existence =>
                  built.exists = PyBool(call.path \in call.fs)
           /\ built.is_dir = "None" <=> ~call.validate_directory
           /\ call.validate_directory =>
                  built.is_dir = PyBool(call.path \in DOMAIN call.dirs)
           /\ \A i \in 1..Len(built.audio_files) :
                  /\ built.audio_files[i].is_supported = "None"
                         <=> ~call.check_extension
                  /\ call.check_extension =>
                         built.audio_files[i].is_supported =
                             PyBool(HasSupportedExtension(
                                        built.audio_files[i].source))

\* a file reference to a missing path was built with the existence check on
\* and the extension check off
TriStateFieldsWitness ==
    /\ pc = "fileref"
    /\ call.path = Readme
    /\ Readme \notin call.fs
    /\ call.validate_existence
    /\ ~call.check_extension
    /\ built.exists = "False"
    /\ built.is_supported = "None"

\* C20: the construction of an AudioDirRef fails exactly when the directory
\* cannot be listed, whatever the flags, and then there is no object; a
\* constructed AudioDirRef stores exists and is_dir as True or absent.
ListingBeforeFlags ==
    (call # NoneObj /\ call.op = "AudioDirRef" /\ pc \in {"dirref", "dirraised"})
    => /\ pc = "dirraised" <=> call.path \notin DOMAIN call.dirs
       /\ pc = "dirraised" => built = NoneObj
       /\ pc = "dirref" =>
              /\ built.kind = "AudioDirRef"
              /\ built.exists \in {"True", "None"}
              /\ built.is_dir \in {"True", "None"}

\* the directory was missing and the construction failed with every check
\* switched off
ListingBeforeFlagsWitness ==
    /\ pc = "dirraised"
    /\ Dir_d \notin call.fs
    /\ ~call.validate_existence
    /\ ~call.validate_directory
    /\ ~call.check_extension
    /\ built = NoneObj

RECURSIVE ConcatDumps(_, _)
ConcatDumps(items, i) ==
    IF i > Len(items) THEN <<>>
    ELSE M3UParser_dumps(<<items[i]>>) \o ConcatDumps(items, i + 1)

\* C15: for an AudioDirRef dumps emits its directory path and one newline and
\* none of its children, for a bare directive its rendered line and one
\* newline, and the result is the items' outputs in the order of the items.
DirRefAndDirectiveContribution ==
    pc = "dumped" =>
        /\ \A j \in 1..Len(args) :
               LET before == M3UParser_dumps(SubSeq(args, 1, j - 1))
                   after == M3UParser_dumps(SubSeq(args, j + 1, Len(args)))
               IN /\ args[j].kind = "AudioDirRef" =>
                         dumps_result = before \o args[j].directory
                                        \o <<"\n">> \o after
                  /\ args[j].kind \in {"EXTINF", "EXTM3U"} =>
                         dumps_result = before \o as_m3u(args[j])
                                        \o <<"\n">> \o after
        /\ dumps_result = ConcatDumps(args, 1)

\* an AudioDirRef with three children and a bare Metadata directive were
\* dumped: two lines came out
DirRefAndDirectiveContributionWitness ==
    /\ pc = "dumped"
    /\ Len(args) = 2
    /\ args[1].kind = "AudioDirRef"
    /\ Len(args[1].audio_files) = 3
    /\ args[2].kind = "EXTINF"
    /\ dumps_result = Dir_d \o <<"\n">> \o EXTINF_prefix
                      \o <<"2", "0", ",", "u", "\n">>

\* C19: dump writes to the handle once, and what it writes is the empty
\* string, whatever playlist the caller holds.
DumpWritesNothing ==
    pc = "written" => writes = << <<>> >>

\* the caller held a playlist of two items and dump wrote the empty string
DumpWritesNothingWitness ==
    /\ pc = "written"
    /\ Len(held) = 2
    /\ IsFileRef(held[1])
    /\ Len(writes) = 1
    /\ writes[1] = <<>>

\* ------------------------------------------- two loads generators at once

\* most lines of a text handed to one of two generators
MaxTwoLines == 2

GenIds == {1, 2}

\* the lines of the texts two generators run over
TwoLines ==
    { Path_b, <<" ">>,
      EXTINF_prefix \o <<"1", ",", "t">>,
      EXTINF_prefix \o <<"2", "0", ",", "u">> }

TwoTexts ==
    { JoinLines(ls) : ls \in UNION { [1..n -> TwoLines] : n \in 0..MaxTwoLines } }

\* the frame of a generator that loads(text) returns: no line is read yet
NewGen(text) ==
    [m3u_string |-> text, idx |-> 0, parsed_line |-> NoneObj,
     last_external_info |-> NoneObj, yielded |-> <<>>, pc |-> "created"]

\* next() on the generator with frame self: its frame afterwards
gen_next(self, g, files) ==
    LET lines == splitlines(self.m3u_string)
    IN IF self.idx = Len(lines)
       THEN [self EXCEPT !.pc = "exhausted"]
       ELSE LET r == loads_body(lines[self.idx + 1], self.parsed_line,
                                self.last_external_info,
                                10 * g + self.idx + 1, files)
            IN [m3u_string |-> self.m3u_string,
                idx |-> self.idx + 1,
                parsed_line |-> r.parsed_line,
                last_external_info |-> r.last_external_info,
                yielded |-> IF r.raised THEN self.yielded
                            ELSE Append(self.yielded, r.parsed_line),
                pc |-> IF r.raised THEN "raised" ELSE "suspended"]

InitTwo ==
    /\ fs \in SUBSET FsPaths
    /\ pc = "idle"
    /\ args = <<>>
    /\ dumps_result = <<>>
    /\ from_dumps = FALSE
    /\ m3u_string = <<>>
    /\ idx = 0
    /\ parsed_line = NoneObj
    /\ last_external_info = NoneObj
    /\ yielded = <<>>
    /\ match_call = NoneObj
    /\ match_result = <<>>
    /\ AuxInit

\* a call of M3UParser.loads(text) that returns generator g
LoadsOf(g) ==
    /\ g \notin DOMAIN gens
    /\ \E text \in TwoTexts : gens' = (g :> NewGen(text)) @@ gens
    /\ UNCHANGED <<fs, loadsVars, dirs, call, built, iterations, held, writes>>

\* next() on generator g when last_external_info is one variable of the
\* class, shared by the generators
GenNextOf_shared(g) ==
    /\ g \in DOMAIN gens
    /\ gens[g].pc \in {"created", "suspended"}
    /\ LET info == IF (3 - g) \in DOMAIN gens
                      /\ gens[3 - g].last_external_info # NoneObj
                   THEN gens[3 - g].last_external_info
                   ELSE gens[g].last_external_info
       IN gens' = [gens EXCEPT ![g] =
                      gen_next([gens[g] EXCEPT !.last_external_info = info],
                               g, fs)]
    /\ UNCHANGED <<fs, loadsVars, dirs, call, built, iterations, held, writes>>

\* next() on generator g: the loop body runs on the generator's own locals
GenNextOf(g) ==
    /\ g \in DOMAIN gens
    /\ gens[g].pc \in {"created", "suspended"}
    /\ gens' = [gens EXCEPT ![g] = gen_next(gens[g], g, fs)]
    /\ UNCHANGED <<fs, loadsVars, dirs, call, built, iterations, held, writes>>

NextTwo == \E g \in GenIds : LoadsOf(g) \/ GenNextOf(g)

\* two loads generators consumed in any interleaving
SpecTwo == InitTwo /\ [][NextTwo]_vars

\* what a generator over the lines yields for lines k..n when it is consumed
\* alone, from the locals parsed and info; it stops at a line that fails
RECURSIVE AloneFrom(_, _, _, _, _, _, _)
AloneFrom(lines, k, n, parsed, info, g, files) ==
    IF k > n THEN <<>>
    ELSE LET r == loads_body(lines[k], parsed, info, 10 * g + k, files)
         IN IF r.raised THEN <<>>
            ELSE <<r.parsed_line>>
                 \o AloneFrom(lines, k + 1, n, r.parsed_line,
                              r.last_external_info, g, files)

\* the objects generator g constructs have the identities 10 * g + line
OwnedBy(obj, g) == obj.id \in (10 * g + 1)..(10 * g + 9)

\* C16: two loads generators consumed in any interleaving: each has yielded
\* exactly the items it yields for the lines it has taken when it is consumed
\* alone, and a file reference yielded by one carries no Metadata directive
\* parsed by the other.
NoSharedLoadsState ==
    \A g \in DOMAIN gens :
        /\ gens[g].yielded =
               AloneFrom(splitlines(gens[g].m3u_string), 1, gens[g].idx,
                         NoneObj, NoneObj, g, fs)
        /\ \A j \in 1..Len(gens[g].yielded) :
               LET item == gens[g].yielded[j]
               IN /\ item # NoneObj => OwnedBy(item, g)
                  /\ (IsFileRef(item) /\ item.external_info # NoneObj) =>
                         OwnedBy(item.external_info, g)

\* generator 1 has a Metadata directive pending, and generator 2, consumed
\* meanwhile, yielded a file reference that carries nothing
NoSharedLoadsStateWitness ==
    /\ DOMAIN gens = {1, 2}
    /\ gens[1].pc = "suspended"
    /\ gens[1].last_external_info # NoneObj
    /\ gens[2].pc = "exhausted"
    /\ gens[2].m3u_string = Path_b \o <<"\n">>
    /\ Len(gens[2].yielded) = 1
    /\ IsFileRef(gens[2].yielded[1])
    /\ gens[2].yielded[1].external_info = NoneObj

====
